---- MODULE Spec2Model ----
(***************************************************************************)
(* A model of weather.py: the MCP "weather" server with its two tools,     *)
(* get_alerts and get_forecast, the fetch helper make_nws_request, the     *)
(* alert formatter format_alert and the signal-driven shutdown path        *)
(* (handle_shutdown and the __main__ block).                               *)
(*                                                                         *)
(* JSON values are tagged records, strings are TLA+ strings, so the text a *)
(* tool returns is computed character for character.  A Python evaluation  *)
(* that may raise yields Return(value) or Raise(exception).                *)
(***************************************************************************)
EXTENDS Integers, Sequences, FiniteSets, TLC

\* ------------------------------------------------------------- bounds
\* Longest `features` list an upstream alerts body carries.
MaxFeatures == 2
\* Longest `periods` list an upstream forecast body carries (more than the
\* five the tool keeps).
MaxPeriods == 6
\* Tool invocations the host dispatches concurrently in SpecServer.
MaxTasks == 2
\* Signals delivered to the process in SpecServer.
MaxSignals == 1

\* ------------------------------------------------------- JSON values
Null == [t |-> "null"]
Str(s) == [t |-> "str", v |-> s]
Num(n) == [t |-> "num", v |-> n]
List(s) == [t |-> "list", v |-> s]
Dict(f) == [t |-> "dict", v |-> f]
EmptyMap == [k \in {} |-> Null]

\* Python truthiness, as `not data` evaluates it.
Truthy(v) ==
    CASE v.t = "null" -> FALSE
      [] v.t = "str"  -> v.v # ""
      [] v.t = "num"  -> v.v # 0
      [] v.t = "list" -> Len(v.v) > 0
      [] v.t = "dict" -> DOMAIN v.v # {}

\* `key in d` for a dict d.
HasKey(d, key) == d.t = "dict" /\ key \in DOMAIN d.v

\* str(v), as an f-string renders a value.
PyStr(v) ==
    CASE v.t = "null" -> "None"
      [] v.t = "str"  -> v.v
      [] v.t = "num"  -> ToString(v.v)

\* The outcome of an evaluation that may raise.
Return(v) == [kind |-> "return", value |-> v]
Raise(e) == [kind |-> "raise", exc |-> e]
Pending == [kind |-> "pending"]

\* All sequences over S of length 0..n.
RECURSIVE SeqsUpTo(_, _)
SeqsUpTo(S, n) ==
    IF n = 0 THEN {<<>>}
    ELSE LET shorter == SeqsUpTo(S, n - 1)
         IN shorter \cup {Append(s, x) : s \in {q \in shorter : Len(q) = n - 1}, x \in S}

\* ---------------------------------------------------------- constants
NWS_API_BASE == "https://api.weather.gov"
Separator == "\n---\n"
MsgNoAlertsData == "Unable to fetch alerts or no alerts found."
MsgNoActiveAlerts == "No active alerts for this state."
MsgNoPoints == "Unable to fetch forecast data for this location."
MsgNoForecast == "Unable to fetch detailed forecast."

\* str.join: the items of a sequence of strings with sep between neighbours.
RECURSIVE Join(_, _)
Join(sep, items) ==
    IF Len(items) = 0 THEN ""
    ELSE IF Len(items) = 1 THEN items[1]
    ELSE items[1] \o sep \o Join(sep, Tail(items))

\* dict.get(key, default), rendered.
Get(props, key, default) ==
    IF key \in DOMAIN props.v THEN PyStr(props.v[key]) ELSE default

\* format_alert with the description's placeholder mistyped as "Unknown":
\* the variant C5 must tell from format_alert.
format_alert_one_placeholder(feature) ==
    IF ~HasKey(feature, "properties") THEN Raise("KeyError")
    ELSE LET props == feature.v["properties"]
         IN Return("\nEvent: " \o Get(props, "event", "Unknown")
                \o "\nArea: " \o Get(props, "areaDesc", "Unknown")
                \o "\nSeverity: " \o Get(props, "severity", "Unknown")
                \o "\nDescription: " \o Get(props, "description", "Unknown")
                \o "\nInstructions: " \o Get(props, "instruction", "No specific instructions provided")
                \o "\n")

\* format_alert(feature): the five-line block, or KeyError when the feature
\* carries no "properties".
format_alert(feature) ==
    IF ~HasKey(feature, "properties") THEN Raise("KeyError")
    ELSE LET props == feature.v["properties"]
         IN Return("\nEvent: " \o Get(props, "event", "Unknown")
                \o "\nArea: " \o Get(props, "areaDesc", "Unknown")
                \o "\nSeverity: " \o Get(props, "severity", "Unknown")
                \o "\nDescription: " \o Get(props, "description", "No description available")
                \o "\nInstructions: " \o Get(props, "instruction", "No specific instructions provided")
                \o "\n")

\* The list comprehension of get_alerts: format_alert over the features in
\* order; the first feature that raises ends it.
RECURSIVE FormatAlerts(_)
FormatAlerts(features) ==
    IF Len(features) = 0 THEN Return(<<>>)
    ELSE LET first == format_alert(features[1])
         IN IF first.kind = "raise" THEN first
            ELSE LET rest == FormatAlerts(Tail(features))
                 IN IF rest.kind = "raise" THEN rest
                    ELSE Return(<<first.value>> \o rest.value)

\* get_alerts reading `features` with data.get("features", []) instead of
\* testing for the key: the variant C2 must tell from get_alerts_body.
get_alerts_body_default_features(data) ==
    IF ~Truthy(data) THEN Return(MsgNoAlertsData)
    ELSE IF ~HasKey(data, "features") \/ ~Truthy(data.v["features"])
         THEN Return(MsgNoActiveAlerts)
    ELSE LET alerts == FormatAlerts(data.v["features"].v)
         IN IF alerts.kind = "raise" THEN alerts
            ELSE Return(Join(Separator, alerts.value))

\* get_alerts without the test for an empty `features`: the variant C4 must
\* tell from get_alerts_body.
get_alerts_body_no_empty_test(data) ==
    IF ~Truthy(data) \/ ~HasKey(data, "features") THEN Return(MsgNoAlertsData)
    ELSE IF data.v["features"].t # "list" THEN Raise("TypeError")
    ELSE LET alerts == FormatAlerts(data.v["features"].v)
         IN IF alerts.kind = "raise" THEN alerts
            ELSE Return(Join(Separator, alerts.value))

\* get_alerts from the value make_nws_request handed back to its return.
get_alerts_body(data) ==
    IF ~Truthy(data) \/ ~HasKey(data, "features") THEN Return(MsgNoAlertsData)
    ELSE IF ~Truthy(data.v["features"]) THEN Return(MsgNoActiveAlerts)
    ELSE LET alerts == FormatAlerts(data.v["features"].v)
         IN IF alerts.kind = "raise" THEN alerts
            ELSE Return(Join(Separator, alerts.value))

\* d[k1][k2] with both subscripts checked: KeyError when either is missing.
Subscript2(d, k1, k2) ==
    IF ~HasKey(d, k1) THEN Raise("KeyError")
    ELSE IF ~HasKey(d.v[k1], k2) THEN Raise("KeyError")
    ELSE Return(d.v[k1].v[k2])

\* get_forecast without the test of points_data: subscripting None raises
\* TypeError.  The variant C3 must tell from get_forecast_points.
get_forecast_points_unchecked(points_data) ==
    IF points_data.t # "dict" THEN Raise("TypeError")
    ELSE LET forecast_url == Subscript2(points_data, "properties", "forecast")
         IN IF forecast_url.kind = "raise" THEN forecast_url
            ELSE [kind |-> "request", url |-> forecast_url.value.v]

\* get_forecast between its two fetches: the fixed message, a KeyError, or
\* the forecast URL to request next.
get_forecast_points(points_data) ==
    IF ~Truthy(points_data) THEN Return(MsgNoPoints)
    ELSE LET forecast_url == Subscript2(points_data, "properties", "forecast")
         IN IF forecast_url.kind = "raise" THEN forecast_url
            ELSE [kind |-> "request", url |-> forecast_url.value.v]

PeriodFields ==
    {"name", "temperature", "temperatureUnit", "windSpeed", "windDirection",
     "detailedForecast"}

\* The f-string of the loop body: every field is subscripted, so a period
\* that lacks one raises KeyError.
FormatPeriod(period) ==
    IF ~(PeriodFields \subseteq DOMAIN period.v) THEN Raise("KeyError")
    ELSE Return("\n" \o PyStr(period.v["name"]) \o ":"
             \o "\nTemperature: " \o PyStr(period.v["temperature"]) \o "°"
             \o PyStr(period.v["temperatureUnit"])
             \o "\nWind: " \o PyStr(period.v["windSpeed"]) \o " "
             \o PyStr(period.v["windDirection"])
             \o "\nForecast: " \o PyStr(period.v["detailedForecast"])
             \o "\n")

\* periods[:n + 1]: the variant C6 must tell from Slice.
SliceOneMore(s, n) == SubSeq(s, 1, IF Len(s) < n + 1 THEN Len(s) ELSE n + 1)

\* periods[:n].
Slice(s, n) == SubSeq(s, 1, IF Len(s) < n THEN Len(s) ELSE n)

\* The for loop of get_forecast over periods[:5].
RECURSIVE FormatPeriods(_)
FormatPeriods(periods) ==
    IF Len(periods) = 0 THEN Return(<<>>)
    ELSE LET first == FormatPeriod(periods[1])
         IN IF first.kind = "raise" THEN first
            ELSE LET rest == FormatPeriods(Tail(periods))
                 IN IF rest.kind = "raise" THEN rest
                    ELSE Return(<<first.value>> \o rest.value)

\* How many leading periods the tool keeps.
ForecastLimit == 5

\* get_forecast from the value its second fetch handed back to its return.
get_forecast_body(forecast_data) ==
    IF ~Truthy(forecast_data) THEN Return(MsgNoForecast)
    ELSE LET periods == Subscript2(forecast_data, "properties", "periods")
         IN IF periods.kind = "raise" THEN periods
            ELSE LET forecasts == FormatPeriods(Slice(periods.value.v, ForecastLimit))
                 IN IF forecasts.kind = "raise" THEN forecasts
                    ELSE Return(Join(Separator, forecasts.value))

\* ------------------------------------------------------ make_nws_request
\* What the upstream does with one GET.  "ok" is a 2xx response whose body
\* parses; the others are the failures of lines 35-37.
FailureKinds == {"network_error", "timeout", "http_error", "bad_json"}
Responses(bodies) ==
    {[kind |-> k] : k \in FailureKinds} \cup {[kind |-> "ok", body |-> b] : b \in bodies}

\* The try block of make_nws_request: client.get raises on a network error
\* or a timeout, raise_for_status on a non-2xx status, response.json on a
\* body that does not parse; otherwise the parsed body is returned.
TryBlock(resp) ==
    CASE resp.kind = "network_error" -> Raise("ConnectError")
      [] resp.kind = "timeout"       -> Raise("TimeoutException")
      [] resp.kind = "http_error"    -> Raise("HTTPStatusError")
      [] resp.kind = "bad_json"      -> Raise("JSONDecodeError")
      [] resp.kind = "ok"            -> Return(resp.body)

\* make_nws_request without its except clause: the variant C7 must tell
\* from make_nws_request.
make_nws_request_no_except(resp) == TryBlock(resp)

\* make_nws_request for a response: `except Exception` turns every exception
\* of the try block into a returned None.
make_nws_request(resp) ==
    LET r == TryBlock(resp)
    IN IF r.kind = "raise" THEN Return(Null) ELSE r

\* The client a call of make_nws_request opens: a fresh one per call, named
\* by the invocation and the number of the call within it.
NewClient(i, n) == [owner |-> i, call |-> n]

\* A client that is never closed: the variant C9 must tell from
\* AsyncWithExit.
AsyncWithExitLeak(held, client) == held

\* Leaving the `async with` block closes the client on every exit path.
AsyncWithExit(held, client) == held \ {client}

\* How many format_alert calls get_alerts makes for the fetched data: none
\* before the two guards pass, then one per feature up to the first raise.
RECURSIVE FormatCalls(_)
FormatCalls(features) ==
    IF Len(features) = 0 THEN 0
    ELSE IF format_alert(features[1]).kind = "raise" THEN 1
    ELSE 1 + FormatCalls(Tail(features))

get_alerts_format_calls(data) ==
    IF ~Truthy(data) \/ ~HasKey(data, "features") THEN 0
    ELSE IF ~Truthy(data.v["features"]) THEN 0
    ELSE FormatCalls(data.v["features"].v)

\* ------------------------------------------------------------- inputs
States == {"CA", "XX"}

\* A float with one decimal, given in tenths, as an f-string renders it.
FloatRepr(tenths) ==
    LET a == IF tenths < 0 THEN -tenths ELSE tenths
    IN (IF tenths < 0 THEN "-" ELSE "") \o ToString(a \div 10) \o "." \o ToString(a % 10)

\* (latitude, longitude) in tenths of a degree.
Coordinates == {<<390, -770>>, <<476, -1223>>}

AlertsUrl(state) == NWS_API_BASE \o "/alerts/active/area/" \o state
PointsUrl(latitude, longitude) ==
    NWS_API_BASE \o "/points/" \o FloatRepr(latitude) \o "," \o FloatRepr(longitude)

AlertFields == {"event", "areaDesc", "severity", "description", "instruction"}
AlertFieldValue(k) ==
    CASE k = "event"       -> "Flood Warning"
      [] k = "areaDesc"    -> "Sonoma, CA"
      [] k = "severity"    -> "Severe"
      [] k = "description" -> "River rising."
      [] k = "instruction" -> "Move to higher ground."

\* An alert feature whose properties carry exactly the fields of `present`.
AlertFeature(present) ==
    Dict([properties |-> Dict([k \in present |-> Str(AlertFieldValue(k))])])

\* Every shape of feature: one per subset of the five fields, and one with
\* no "properties" at all.
Features == {AlertFeature(S) : S \in SUBSET AlertFields} \cup {Dict(EmptyMap)}

AlertBodiesOver(features, n) ==
    {Dict(EmptyMap), Dict([title |-> Str("alerts")]), Dict([features |-> Null])}
        \cup {Dict([features |-> List(fs)]) : fs \in SeqsUpTo(features, n)}

ForecastUrls ==
    {NWS_API_BASE \o "/gridpoints/LWX/97,71/forecast",
     NWS_API_BASE \o "/gridpoints/SEW/124,67/forecast"}

PointsBodiesOver(urls) ==
    {Dict(EmptyMap), Dict([id |-> Str("point")]), Dict([properties |-> Dict(EmptyMap)])}
        \cup {Dict([properties |-> Dict([forecast |-> Str(u)])]) : u \in urls}

PeriodA ==
    Dict([name |-> Str("Tonight"), temperature |-> Num(55), temperatureUnit |-> Str("F"),
          windSpeed |-> Str("5 mph"), windDirection |-> Str("NW"),
          detailedForecast |-> Str("Clear.")])
PeriodB ==
    Dict([name |-> Str("Monday"), temperature |-> Num(-3), temperatureUnit |-> Str("C"),
          windSpeed |-> Str("10 to 15 mph"), windDirection |-> Str("S"),
          detailedForecast |-> Str("Snow likely.")])
\* A period that lacks detailedForecast.
PeriodShort ==
    Dict([name |-> Str("Tuesday"), temperature |-> Num(40), temperatureUnit |-> Str("F"),
          windSpeed |-> Str("0 mph"), windDirection |-> Str("N")])
Periods == {PeriodA, PeriodB, PeriodShort}

ForecastBodiesOver(periods, n) ==
    {Dict(EmptyMap), Dict([properties |-> Dict(EmptyMap)])}
        \cup {Dict([properties |-> Dict([periods |-> List(ps)])]) : ps \in SeqsUpTo(periods, n)}

\* What the upstream may answer, per kind of request: every shape within the
\* bounds for a single invocation, a few shapes for the concurrent server.
FullUpstream ==
    [states   |-> States,
     coords   |-> Coordinates,
     alerts   |-> Responses(AlertBodiesOver(Features, MaxFeatures)),
     points   |-> Responses(PointsBodiesOver(ForecastUrls)),
     forecast |-> Responses(ForecastBodiesOver(Periods, MaxPeriods))]
SmallUpstream ==
    [states   |-> {"CA"},
     coords   |-> {<<390, -770>>},
     alerts   |-> Responses({Dict(EmptyMap),
                             Dict([features |-> List(<<>>)]),
                             Dict([features |-> List(<<AlertFeature({"event"})>>)]),
                             Dict([features |-> List(<<Dict(EmptyMap)>>)])}),
     points   |-> Responses({Dict(EmptyMap),
                             Dict([properties |-> Dict(EmptyMap)]),
                             Dict([properties |->
                                     Dict([forecast |->
                                             Str(NWS_API_BASE \o "/gridpoints/LWX/97,71/forecast")])])}),
     forecast |-> Responses({Dict(EmptyMap),
                             Dict([properties |-> Dict(EmptyMap)]),
                             Dict([properties |-> Dict([periods |-> List(<<PeriodA>>)])])})]

\* -------------------------------------------------------------- state
VARIABLES
    tool,       \* per invocation: "none" until dispatched, then the tool's name
    url,        \* per invocation: the URL of its current make_nws_request call
    pc,         \* per invocation: "idle", "get" (awaiting client.get),
                \* "closing" (leaving the async with), "done"
    calls,      \* per invocation: make_nws_request calls started
    held,       \* per invocation: the clients it holds open
    gets,       \* per invocation: the GETs it issued, [client, url], in order
    fetches,    \* per invocation: its completed calls, [url, resp, result]
    formatted,  \* per invocation: format_alert calls made
    outcome,    \* per invocation: Pending, Return(text) or Raise(exception)
    mainPc,     \* __main__: "init" (handlers registered), "serving", "exited"
    serverLoop, \* the loop mcp.run drives: "loop" (the one of line 119) or "other"
    stopping,   \* loop.stop() was called on `loop`
    cancelled,  \* invocations whose task had cancel() called
    signals,    \* signals received so far
    pendingSignal, \* "none", or the received signal whose handler has not run
    handlerPc   \* handle_shutdown: "idle", "faulted", "complete"

taskVars == <<tool, url, pc, calls, held, gets, fetches, formatted, outcome>>
serverVars == <<mainPc, serverLoop, stopping, cancelled, signals, pendingSignal, handlerPc>>
vars == <<taskVars, serverVars>>

Tasks == DOMAIN pc

\* The state after lines 119-121: the loop obtained, the handlers registered,
\* nothing dispatched.
InitWith(n) ==
    /\ tool = [i \in 1..n |-> "none"]
    /\ url = [i \in 1..n |-> ""]
    /\ pc = [i \in 1..n |-> "idle"]
    /\ calls = [i \in 1..n |-> 0]
    /\ held = [i \in 1..n |-> {}]
    /\ gets = [i \in 1..n |-> <<>>]
    /\ fetches = [i \in 1..n |-> <<>>]
    /\ formatted = [i \in 1..n |-> 0]
    /\ outcome = [i \in 1..n |-> Pending]
    /\ mainPc = "init"
    /\ serverLoop = "none"
    /\ stopping = FALSE
    /\ cancelled = {}
    /\ signals = 0
    /\ pendingSignal = "none"
    /\ handlerPc = "idle"

\* The server's loop is turning: invocations can be dispatched and resumed.
LoopTurning == mainPc = "serving" /\ ~(serverLoop = "loop" /\ stopping)

\* mcp.run(transport='stdio'), line 123: a blocking call that drives an event
\* loop, either the one line 119 obtained or one of its own.
StartServer ==
    /\ mainPc = "init"
    /\ mainPc' = "serving"
    /\ \E l \in {"loop", "other"} : serverLoop' = l
    /\ UNCHANGED <<taskVars, stopping, cancelled, signals, pendingSignal, handlerPc>>

\* make_nws_request up to `await client.get(...)`: a client is opened and one
\* GET is issued with it.
BeginRequest(i, u) ==
    LET client == NewClient(i, calls[i] + 1)
    IN /\ calls' = [calls EXCEPT ![i] = @ + 1]
       /\ url' = [url EXCEPT ![i] = u]
       /\ held' = [held EXCEPT ![i] = @ \cup {client}]
       /\ gets' = [gets EXCEPT ![i] = Append(@, [client |-> client, url |-> u])]
       /\ pc' = [pc EXCEPT ![i] = "get"]

\* The host invokes get_alerts(state): lines 59-61 up to the await.
CallGetAlerts(i, up) ==
    /\ LoopTurning
    /\ pc[i] = "idle"
    /\ \E state \in up.states : BeginRequest(i, AlertsUrl(state))
    /\ tool' = [tool EXCEPT ![i] = "get_alerts"]
    /\ UNCHANGED <<fetches, formatted, outcome, serverVars>>

\* The host invokes get_forecast(latitude, longitude): lines 77-79.
CallGetForecast(i, up) ==
    /\ LoopTurning
    /\ pc[i] = "idle"
    /\ \E c \in up.coords : BeginRequest(i, PointsUrl(c[1], c[2]))
    /\ tool' = [tool EXCEPT ![i] = "get_forecast"]
    /\ UNCHANGED <<fetches, formatted, outcome, serverVars>>

\* The responses the upstream may give to the invocation's current request.
Answers(i, up) ==
    IF tool[i] = "get_alerts" THEN up.alerts
    ELSE IF calls[i] = 1 THEN up.points ELSE up.forecast

\* client.get completes (lines 35-42): the try block runs to its return or
\* into the except clause; the coroutine is now leaving the async with.
Respond(i, up) ==
    /\ LoopTurning
    /\ pc[i] = "get"
    /\ \E resp \in Answers(i, up) :
          fetches' = [fetches EXCEPT ![i] =
                        Append(@, [url |-> url[i], resp |-> resp,
                                   result |-> make_nws_request(resp)])]
    /\ pc' = [pc EXCEPT ![i] = "closing"]
    /\ UNCHANGED <<tool, url, calls, held, gets, formatted, outcome, serverVars>>

\* The tool's code after `await make_nws_request(...)` handed back `result`:
\* an exception of the helper propagates, get_alerts runs to its end, and
\* get_forecast either ends or goes on to its second request.
Continue(i, result) ==
    IF result.kind = "raise" THEN result
    ELSE IF tool[i] = "get_alerts" THEN get_alerts_body(result.value)
    ELSE IF calls[i] = 1 THEN get_forecast_points(result.value)
    ELSE get_forecast_body(result.value)

\* The async with block is left (the client is closed), make_nws_request
\* returns and the tool runs on to its next await or to its end.
Close(i) ==
    /\ LoopTurning
    /\ pc[i] = "closing"
    /\ LET last == fetches[i][Len(fetches[i])]
           released == AsyncWithExit(held[i], NewClient(i, calls[i]))
           next == Continue(i, last.result)
       IN IF next.kind = "request"
          THEN LET client == NewClient(i, calls[i] + 1)
               IN /\ calls' = [calls EXCEPT ![i] = @ + 1]
                  /\ url' = [url EXCEPT ![i] = next.url]
                  /\ held' = [held EXCEPT ![i] = released \cup {client}]
                  /\ gets' = [gets EXCEPT ![i] = Append(@, [client |-> client, url |-> next.url])]
                  /\ pc' = [pc EXCEPT ![i] = "get"]
                  /\ UNCHANGED <<formatted, outcome>>
          ELSE /\ held' = [held EXCEPT ![i] = released]
               /\ outcome' = [outcome EXCEPT ![i] = next]
               /\ formatted' = [formatted EXCEPT ![i] =
                                  IF tool[i] = "get_alerts" /\ last.result.kind = "return"
                                  THEN get_alerts_format_calls(last.result.value) ELSE 0]
               /\ pc' = [pc EXCEPT ![i] = "done"]
               /\ UNCHANGED <<calls, url, gets>>
    /\ UNCHANGED <<tool, fetches, serverVars>>

\* ------------------------------------------- one invocation, every input
Init == InitWith(1)
Next ==
    \/ StartServer
    \/ \E i \in Tasks : CallGetAlerts(i, FullUpstream)
    \/ \E i \in Tasks : CallGetForecast(i, FullUpstream)
    \/ \E i \in Tasks : Respond(i, FullUpstream)
    \/ \E i \in Tasks : Close(i)
Spec == Init /\ [][Next]_vars

\* ------------------------------------------------------------ shutdown
\* The tasks asyncio.all_tasks(loop) lists: the unfinished invocations, when
\* `loop` is the loop that runs them.
OutstandingTasks ==
    IF serverLoop = "loop" THEN {i \in Tasks : pc[i] \in {"get", "closing"}} ELSE {}

\* handle_shutdown(loop), lines 107-114, run in one go (it never awaits):
\* every listed task gets cancel(), loop.stop() is called, and then
\* loop.run_until_complete raises RuntimeError when the loop is running, so
\* that loop.close() and "Shutdown complete" are not reached.
handle_shutdown(loopRunning, tasks) ==
    [cancelled |-> tasks,
     stopping  |-> TRUE,
     end       |-> IF loopRunning THEN "faulted" ELSE "complete"]

\* SIGINT or SIGTERM reaches the process while the server runs.  The handlers
\* of line 121 belong to `loop`: the signal waits for that loop to call them.
Signal ==
    /\ mainPc = "serving"
    /\ signals < MaxSignals
    /\ signals' = signals + 1
    /\ \E sig \in {"SIGINT", "SIGTERM"} : pendingSignal' = sig
    /\ UNCHANGED <<taskVars, mainPc, serverLoop, stopping, cancelled, handlerPc>>

\* `loop` is running and calls the registered handler, lambda:
\* handle_shutdown(loop), as one of its callbacks.
RunHandler ==
    /\ LoopTurning
    /\ serverLoop = "loop"
    /\ pendingSignal # "none"
    /\ LET h == handle_shutdown(TRUE, OutstandingTasks)
       IN /\ cancelled' = cancelled \cup h.cancelled
          /\ stopping' = h.stopping
          /\ handlerPc' = h.end
    /\ pendingSignal' = "none"
    /\ UNCHANGED <<taskVars, mainPc, serverLoop, signals>>

\* The stopped loop ends mcp.run; the finally clause of line 130 runs and the
\* process ends with whatever invocations were outstanding left unfinished.
ServerStops ==
    /\ mainPc = "serving"
    /\ serverLoop = "loop"
    /\ stopping
    /\ mainPc' = "exited"
    /\ UNCHANGED <<taskVars, serverLoop, stopping, cancelled, signals, pendingSignal, handlerPc>>

\* ------------------------------- concurrent invocations and the signals
InitServer == InitWith(MaxTasks)
NextServer ==
    \/ StartServer
    \/ \E i \in Tasks : CallGetAlerts(i, SmallUpstream)
    \/ \E i \in Tasks : CallGetForecast(i, SmallUpstream)
    \/ \E i \in Tasks : Respond(i, SmallUpstream)
    \/ \E i \in Tasks : Close(i)
    \/ Signal
    \/ RunHandler
    \/ ServerStops
SpecServer == InitServer /\ [][NextServer]_vars

\* ====================================================== the properties
Done(i) == pc[i] = "done"
Alerts(i) == tool[i] = "get_alerts"
Forecast(i) == tool[i] = "get_forecast"
\* The k-th completed fetch of invocation i succeeded (2xx, parseable body).
FetchOk(i, k) == Len(fetches[i]) >= k /\ fetches[i][k].resp.kind = "ok"
FetchFailed(i, k) == Len(fetches[i]) >= k /\ fetches[i][k].resp.kind # "ok"
Body(i, k) == fetches[i][k].resp.body
\* The body's `features` is a list.
HasFeatureList(b) == HasKey(b, "features") /\ b.v["features"].t = "list"
FeaturesOf(b) == b.v["features"].v
\* The body's `properties.periods` is a list.
HasPeriodList(b) ==
    /\ HasKey(b, "properties")
    /\ HasKey(b.v["properties"], "periods")
    /\ b.v["properties"].v["periods"].t = "list"
PeriodsOf(b) == b.v["properties"].v["periods"].v

\* C1: every invocation of get_alerts and of get_forecast ends by returning a
\* string, whatever the upstream answered; none ends in a raised exception.
C1_AlwaysReturnsString ==
    \A i \in Tasks : Done(i) => outcome[i].kind = "return"

\* C2: get_alerts returns exactly "Unable to fetch alerts or no alerts found."
\* and formats no alert whenever its fetch failed or the fetched body has no
\* `features` field.
C2_NoDataMessage ==
    \A i \in Tasks :
        (/\ Alerts(i)
         /\ Done(i)
         /\ (FetchFailed(i, 1) \/ ~HasKey(Body(i, 1), "features")))
        => /\ outcome[i] = Return(MsgNoAlertsData)
           /\ formatted[i] = 0

\* C2 witness: a finished get_alerts whose fetch succeeded with a non-empty
\* body that has no `features`, answered with the fixed message.
C2_Witness ==
    \E i \in Tasks :
        /\ Alerts(i) /\ Done(i) /\ FetchOk(i, 1)
        /\ Body(i, 1) = Dict([title |-> Str("alerts")])
        /\ outcome[i] = Return(MsgNoAlertsData)

\* C3: get_forecast returns exactly "Unable to fetch forecast data for this
\* location." and never issues the forecast request when the points fetch
\* failed; returns exactly "Unable to fetch detailed forecast." when the
\* points fetch succeeded and the forecast fetch failed; and issues the
\* forecast request only after the points request completed successfully, to
\* the URL in `properties.forecast` of the points response.
C3_ForecastFetchStages ==
    \A i \in Tasks :
        Forecast(i) =>
            /\ FetchFailed(i, 1) =>
                   /\ Len(gets[i]) = 1
                   /\ Done(i) => outcome[i] = Return(MsgNoPoints)
            /\ (Done(i) /\ FetchOk(i, 1) /\ FetchFailed(i, 2)) =>
                   outcome[i] = Return(MsgNoForecast)
            /\ Len(gets[i]) >= 2 =>
                   /\ Len(gets[i]) = 2
                   /\ FetchOk(i, 1)
                   /\ HasKey(Body(i, 1), "properties")
                   /\ HasKey(Body(i, 1).v["properties"], "forecast")
                   /\ gets[i][2].url = Body(i, 1).v["properties"].v["forecast"].v

\* C3 witness: a finished get_forecast whose points fetch succeeded and whose
\* forecast fetch, sent to the URL of the points response, timed out.
C3_Witness ==
    \E i \in Tasks :
        /\ Forecast(i) /\ Done(i) /\ FetchOk(i, 1) /\ Len(fetches[i]) = 2
        /\ fetches[i][2].resp.kind = "timeout"
        /\ gets[i][2].url = NWS_API_BASE \o "/gridpoints/SEW/124,67/forecast"
        /\ outcome[i] = Return(MsgNoForecast)

\* C4: get_alerts returns exactly "No active alerts for this state." whenever
\* the fetch succeeded and `features` is an empty sequence, and never returns
\* that message when `features` holds at least one feature.
C4_NoActiveAlerts ==
    \A i \in Tasks :
        (Alerts(i) /\ Done(i)) =>
            /\ (FetchOk(i, 1) /\ HasFeatureList(Body(i, 1)) /\ Len(FeaturesOf(Body(i, 1))) = 0)
                   => outcome[i] = Return(MsgNoActiveAlerts)
            /\ outcome[i] = Return(MsgNoActiveAlerts)
                   => ~(FetchOk(i, 1) /\ HasFeatureList(Body(i, 1))
                        /\ Len(FeaturesOf(Body(i, 1))) >= 1)

\* C4 witness: a finished get_alerts whose upstream answered {"features": []}.
C4_Witness ==
    \E i \in Tasks :
        /\ Alerts(i) /\ Done(i) /\ FetchOk(i, 1)
        /\ Body(i, 1) = Dict([features |-> List(<<>>)])
        /\ outcome[i] = Return(MsgNoActiveAlerts)

\* The first n blocks of a sequence, each after the first preceded by the
\* separator line.
RECURSIVE Joined(_, _)
Joined(blocks, n) ==
    IF n = 0 THEN ""
    ELSE IF n = 1 THEN blocks[1]
    ELSE Joined(blocks, n - 1) \o "\n---\n" \o blocks[n]

\* An alert feature record as section 3 of the specification defines it: a
\* record with `properties`, whose five fields are optional strings.
IsAlertFeature(f) ==
    /\ HasKey(f, "properties")
    /\ f.v["properties"].t = "dict"
    /\ \A k \in DOMAIN f.v["properties"].v : f.v["properties"].v[k].t = "str"

\* One line of an alert block: the label, then the field's value when the
\* field is present and the placeholder when it is absent.
AlertLine(label, f, key, placeholder) ==
    label \o ": " \o
        (IF key \in DOMAIN f.v["properties"].v
         THEN f.v["properties"].v[key].v ELSE placeholder)

\* The five-line block the claim describes for one feature.
ExpectedAlertBlock(f) ==
    "\n" \o AlertLine("Event", f, "event", "Unknown")
         \o "\n" \o AlertLine("Area", f, "areaDesc", "Unknown")
         \o "\n" \o AlertLine("Severity", f, "severity", "Unknown")
         \o "\n" \o AlertLine("Description", f, "description", "No description available")
         \o "\n" \o AlertLine("Instructions", f, "instruction",
                              "No specific instructions provided")
         \o "\n"

\* C5: for a fetched body with N >= 1 features (alert feature records),
\* get_alerts returns exactly N blocks, one per feature in the order of
\* `features`, joined by "\n---\n"; each block has the lines Event, Area,
\* Severity, Description, Instructions with every present field's value and
\* every absent field's placeholder.
C5_AlertBlocks ==
    \A i \in Tasks :
        (/\ Alerts(i) /\ Done(i) /\ FetchOk(i, 1)
         /\ HasFeatureList(Body(i, 1))
         /\ Len(FeaturesOf(Body(i, 1))) >= 1
         /\ \A k \in 1..Len(FeaturesOf(Body(i, 1))) : IsAlertFeature(FeaturesOf(Body(i, 1))[k]))
        => LET fs == FeaturesOf(Body(i, 1))
               blocks == [k \in 1..Len(fs) |-> ExpectedAlertBlock(fs[k])]
           IN /\ outcome[i] = Return(Joined(blocks, Len(fs)))
              /\ formatted[i] = Len(fs)

\* C5 witness: a finished get_alerts over two different features, the first
\* with only event and severity present, the second with every field present.
C5_Witness ==
    \E i \in Tasks :
        /\ Alerts(i) /\ Done(i) /\ FetchOk(i, 1)
        /\ Body(i, 1) = Dict([features |->
                                List(<<AlertFeature({"event", "severity"}),
                                       AlertFeature(AlertFields)>>)])
        /\ outcome[i] = Return("\nEvent: Flood Warning\nArea: Unknown\nSeverity: Severe\nDescription: No description available\nInstructions: No specific instructions provided\n\n---\n\nEvent: Flood Warning\nArea: Sonoma, CA\nSeverity: Severe\nDescription: River rising.\nInstructions: Move to higher ground.\n")
        /\ formatted[i] = 2

\* A forecast period record as section 3 of the specification defines it:
\* name, temperature and unit, wind speed and direction, detailed forecast.
IsForecastPeriod(p) == p.t = "dict" /\ PeriodFields \subseteq DOMAIN p.v

\* The four-line block the claim describes for one period.
ExpectedPeriodBlock(p) ==
    "\n" \o p.v["name"].v \o ":\n"
         \o "Temperature: " \o ToString(p.v["temperature"].v) \o "°" \o p.v["temperatureUnit"].v
         \o "\n"
         \o "Wind: " \o p.v["windSpeed"].v \o " " \o p.v["windDirection"].v \o "\n"
         \o "Forecast: " \o p.v["detailedForecast"].v \o "\n"

Min(a, b) == IF a < b THEN a ELSE b

\* C6: when both fetches succeed and `properties.periods` holds M periods
\* (forecast period records, M >= 0), get_forecast returns exactly min(M, 5)
\* blocks, built from the first min(M, 5) periods in their order and joined
\* by "\n---\n", each with the period's name, temperature and unit, wind
\* speed and direction, and detailed forecast; later periods never appear.
C6_ForecastBlocks ==
    \A i \in Tasks :
        (/\ Forecast(i) /\ Done(i) /\ FetchOk(i, 1) /\ FetchOk(i, 2)
         /\ HasPeriodList(Body(i, 2))
         /\ \A k \in 1..Len(PeriodsOf(Body(i, 2))) : IsForecastPeriod(PeriodsOf(Body(i, 2))[k]))
        => LET ps == PeriodsOf(Body(i, 2))
               blocks == [k \in 1..Len(ps) |-> ExpectedPeriodBlock(ps[k])]
           IN outcome[i] = Return(Joined(blocks, Min(Len(ps), 5)))

\* C6 witness: a finished get_forecast over six periods, whose sixth differs
\* from the fifth and is left out.
C6_Witness ==
    \E i \in Tasks :
        /\ Forecast(i) /\ Done(i) /\ FetchOk(i, 1) /\ FetchOk(i, 2)
        /\ HasPeriodList(Body(i, 2))
        /\ PeriodsOf(Body(i, 2)) = <<PeriodA, PeriodB, PeriodB, PeriodA, PeriodA, PeriodB>>
        /\ gets[i][1].url = "https://api.weather.gov/points/39.0,-77.0"
        /\ outcome[i] = Return("\nTonight:\nTemperature: 55°F\nWind: 5 mph NW\nForecast: Clear.\n\n---\n\nMonday:\nTemperature: -3°C\nWind: 10 to 15 mph S\nForecast: Snow likely.\n\n---\n\nMonday:\nTemperature: -3°C\nWind: 10 to 15 mph S\nForecast: Snow likely.\n\n---\n\nTonight:\nTemperature: 55°F\nWind: 5 mph NW\nForecast: Clear.\n\n---\n\nTonight:\nTemperature: 55°F\nWind: 5 mph NW\nForecast: Clear.\n")

\* C7: every call of make_nws_request issues exactly one GET and completes by
\* returning a value: the parsed body for a 2xx response with parseable JSON,
\* None for a network error, a timeout, a non-2xx status or an unparseable
\* body.
C7_FetchReturnsBodyOrNone ==
    \A i \in Tasks :
        /\ Len(gets[i]) = calls[i]
        /\ Len(fetches[i]) <= calls[i]
        /\ \A k \in 1..Len(fetches[i]) :
              /\ fetches[i][k].url = gets[i][k].url
              /\ fetches[i][k].result =
                     Return(IF fetches[i][k].resp.kind = "ok"
                            THEN fetches[i][k].resp.body ELSE Null)

\* C7 witness: a call answered with a non-2xx status has completed with None,
\* after one GET.
C7_Witness ==
    \E i \in Tasks :
        /\ Done(i) /\ calls[i] = 1 /\ Len(gets[i]) = 1
        /\ fetches[i][1].resp.kind = "http_error"
        /\ fetches[i][1].result = Return(Null)

\* C10: get_forecast returns "Unable to fetch forecast data for this
\* location." only when the points fetch failed and "Unable to fetch detailed
\* forecast." only when the forecast fetch failed; a 2xx response with a
\* valid but empty body is reported with neither message.
C10_MessagesOnlyOnFetchFailure ==
    \A i \in Tasks :
        (Forecast(i) /\ Done(i)) =>
            /\ outcome[i] = Return(MsgNoPoints) => FetchFailed(i, 1)
            /\ outcome[i] = Return(MsgNoForecast) => FetchFailed(i, 2)

\* C8: whenever SIGINT or SIGTERM is received while the server runs with
\* invocations outstanding, the shutdown handler cancels the outstanding
\* tasks, stops the loop that runs the server, completes the async-generator
\* cleanup and runs to its end ("Shutdown complete") without faulting.
C8_ShutdownCompletes ==
    cancelled # {} => handlerPc = "complete"

\* The clients invocation i has used, in order.
ClientsOf(i) == [k \in 1..Len(gets[i]) |-> gets[i][k].client]
\* The responses invocation i has received, in order.
ResponsesOf(i) == [k \in 1..Len(fetches[i]) |-> fetches[i][k].resp]
UrlsOf(i) == [k \in 1..Len(gets[i]) |-> gets[i][k].url]

\* C9: under every interleaving of concurrent invocations, each fetch uses a
\* client of its own that no other fetch uses; an invocation holds at most
\* one open client, the one of its latest fetch, and none once it has
\* ended; and what an invocation returns is decided by its own tool, inputs
\* and upstream responses alone.
C9_ClientsAndIsolation ==
    /\ \A i \in Tasks :
          /\ Cardinality(held[i]) <= 1
          /\ Done(i) => held[i] = {}
          /\ \A c \in held[i] : Len(gets[i]) >= 1 /\ c = gets[i][Len(gets[i])].client
          /\ pc[i] \in {"get", "closing"} => Cardinality(held[i]) = 1
          /\ \A k, l \in 1..Len(gets[i]) : k # l => gets[i][k].client # gets[i][l].client
    /\ \A i, j \in Tasks :
          i # j =>
             /\ \A k \in 1..Len(gets[i]), l \in 1..Len(gets[j]) :
                   gets[i][k].client # gets[j][l].client
             /\ held[i] \cap held[j] = {}
             /\ (/\ Done(i) /\ Done(j) /\ tool[i] = tool[j]
                 /\ UrlsOf(i) = UrlsOf(j) /\ ResponsesOf(i) = ResponsesOf(j))
                => outcome[i] = outcome[j]

\* C9 witness: two invocations in flight at once, a get_forecast awaiting its
\* second request and a get_alerts awaiting its request, each holding one
\* client, after the first client of the get_forecast was released.
C9_Witness ==
    \E i, j \in Tasks :
        /\ i # j
        /\ Forecast(i) /\ pc[i] = "get" /\ calls[i] = 2
        /\ held[i] = {gets[i][2].client}
        /\ Alerts(j) /\ pc[j] = "get"
        /\ held[j] = {gets[j][1].client}
====
